---- MODULE Spec2Model ----
(***************************************************************************)
(* mrsimulator: transition-pathway resolution of a Method on a SpinSystem, *)
(* and the Isotope class with its process-wide custom-isotope registry.    *)
(*                                                                         *)
(* Magnetic quantum numbers are half-integers; they are held doubled       *)
(* (m = +1/2 is 1, m = -1 is -2), as the literal arrays of                 *)
(* test_transitions.py are before their factor 0.5.                        *)
(* An isotope symbol is the sequence of its characters.                    *)
(***************************************************************************)
EXTENDS Integers, Sequences, FiniteSets, TLC

VARIABLES
    pc,            \* position of get_transition_pathways: idle, run, done, error
    spin_system,   \* the SpinSystem being resolved: the isotope of each site
    method,        \* the Method being resolved
    evt,           \* index of the next event, in declaration order over all dimensions
    pending,       \* the query of the MixingEvent waiting for its "to" transitions
    frontier,      \* partial pathways: records [pathway, weight]
    pathways,      \* the list get_transition_pathways returned
    custom_isotope_data,  \* Isotope.custom_isotope_data: symbol -> stored dict
    outcome,       \* the last call on the Isotope class and what it gave
    threads,       \* the threads inside Isotope.add_new: position, arguments, result
    distribution,  \* a CzjzekDistribution or ExtCzjzekDistribution object
    params,        \* the lmfit Parameters object: name -> value
    variates,      \* the last call on the distribution object and what it gave
    site_list      \* the last call of generate_site_list and what it gave

pathway_vars == <<pc, spin_system, method, evt, pending, frontier, pathways>>
isotope_vars == <<custom_isotope_data, outcome>>
thread_vars == <<threads>>
distribution_vars == <<distribution, params, variates>>
collection_vars == <<site_list>>
vars == <<pc, spin_system, method, evt, pending, frontier, pathways,
          custom_isotope_data, outcome, threads,
          distribution, params, variates, site_list>>

\* No MixingEvent stands between the last SpectralEvent and the next one.
NoPending == [kind |-> "None"]

\* ------------------------------------------------------------------ bounds
\* The longest list given to generate_site_list.
MaxListLen == 2
\* The largest size asked of rvs.
MaxSize == 2
\* The largest sigma, eps, zeta and fitted parameter value.
MaxValue == 2
MaxSites == 3
MaxQuadSites == 1
MaxThreads == 2
MaxQuerySites == 2

\* ------------------------------------------------------- isotope symbols
H1 == <<"1", "H">>
C13 == <<"1", "3", "C">>
N14 == <<"1", "4", "N">>

\* isotope_data.json, the rows the fixtures use; numbers that are not integers
\* are held in units of 1/1000.
ISOTOPE_DATA ==
    (H1 :> [spin_multiplicity |-> 2, gyromagnetic_ratio |-> 42577,
            quadrupole_moment |-> 0, natural_abundance |-> 99985,
            atomic_number |-> 1])
    @@ (C13 :> [spin_multiplicity |-> 2, gyromagnetic_ratio |-> 10708,
                quadrupole_moment |-> 0, natural_abundance |-> 1110,
                atomic_number |-> 6])
    @@ (N14 :> [spin_multiplicity |-> 3, gyromagnetic_ratio |-> 3077,
                quadrupole_moment |-> 20, natural_abundance |-> 99634,
                atomic_number |-> 7])

\* ------------------------------------------------------ 4.1 the universe
\* 2I+1 of a site's isotope.
Multiplicity(isotope) == ISOTOPE_DATA[isotope].spin_multiplicity

\* The doubled quantum numbers 2I .. -2I, decreasing.
LevelsDecreasing(mult) == [k \in 1..mult |-> mult + 1 - 2 * k]

\* The doubled quantum numbers -2I .. 2I of a spin, increasing.
Levels(mult) == [k \in 1..mult |-> 2 * k - mult - 1]

\* Every state of the system: site-major, then increasing quantum number.
RECURSIVE AllStates(_)
AllStates(sites) ==
    IF sites = <<>> THEN << <<>> >>
    ELSE LET rest == AllStates(Tail(sites))
             lv == Levels(Multiplicity(Head(sites)))
             n == Len(rest)
         IN [k \in 1..(Len(lv) * n) |->
                <<lv[((k - 1) \div n) + 1]>> \o rest[((k - 1) % n) + 1]]

\* Every transition: initial and final drawn from the full product.
Universe(sites) ==
    LET st == AllStates(sites)
        n == Len(st)
    IN [k \in 1..(n * n) |->
           [initial |-> st[((k - 1) \div n) + 1], final |-> st[((k - 1) % n) + 1]]]

\* ------------------------------------------------- 4.2 the query matcher
RECURSIVE SumOver(_, _)
SumOver(f, S) ==
    IF S = {} THEN 0
    ELSE LET i == CHOOSE j \in S : TRUE IN f[i] + SumOver(f, S \ {i})

InSeq(x, s) == \E k \in 1..Len(s) : s[k] = x

ChannelIndex(ch) == CASE ch = "ch1" -> 1 [] ch = "ch2" -> 2 [] ch = "ch3" -> 3

SitesOf(sites, isotope) == {i \in 1..Len(sites) : sites[i] = isotope}

\* Coherence-order change of the channel: sum of final - initial over its sites.
P_total(t, S) == SumOver([i \in S |-> (t.final[i] - t.initial[i]) \div 2], S)

\* Quadrupolar-order change: sum of final^2 - initial^2 over its sites.
D_total(t, S) ==
    SumOver([i \in S |-> (t.final[i] * t.final[i] - t.initial[i] * t.initial[i]) \div 4], S)

\* The sites no channel entry of the query names.
UnqueriedSites(sites, channels, q) ==
    {i \in 1..Len(sites) :
        \A ch \in DOMAIN q : channels[ChannelIndex(ch)] # sites[i]}

\* The sites of no channel entry may start in any state and end in any state.
UnqueriedSitesVaryFreely(t, sites, channels, q) == TRUE

\* A site of an isotope without a channel entry keeps its state, whatever that
\* state is: the 1H site of test_01 and the 14N site of test_04 have final equal
\* to initial in every expected transition.
UnqueriedSitesKeepState(t, sites, channels, q) ==
    \A i \in UnqueriedSites(sites, channels, q) : t.final[i] = t.initial[i]

\* One transition against one TransitionQuery: every channel entry matches and
\* the sites without a channel entry keep their state.
MatchesQuery(t, sites, channels, q) ==
    /\ \A ch \in DOMAIN q :
          LET S == SitesOf(sites, channels[ChannelIndex(ch)])
          IN /\ ("P" \in DOMAIN q[ch] => InSeq(P_total(t, S), q[ch].P))
             /\ ("D" \in DOMAIN q[ch] => InSeq(D_total(t, S), q[ch].D))
    /\ UnqueriedSitesKeepState(t, sites, channels, q)

\* An entry for every channel that restricts neither P nor D.
DefaultQueryUnrestricted(channels) ==
    [ch \in {c \in {"ch1", "ch2", "ch3"} : ChannelIndex(c) <= Len(channels)} |->
        [k \in {} |-> <<>>]]

\* The query a SpectralEvent without transition_queries stands for.
DefaultQuery(channels) ==
    [ch \in {c \in {"ch1", "ch2", "ch3"} : ChannelIndex(c) <= Len(channels)} |->
        [P |-> <<0>>]]

\* ------------------------------------------------- 4.3 the event resolver
EventQueries(event, channels) ==
    IF event.transition_queries = <<>> THEN <<DefaultQuery(channels)>>
    ELSE event.transition_queries

\* A transition passes the event only when it matches every one of its queries.
AdmitsEveryQuery(event, t, sites, channels) ==
    LET qs == EventQueries(event, channels)
    IN \A k \in 1..Len(qs) : MatchesQuery(t, sites, channels, qs[k])

\* A transition passes the event when it matches any of its queries.
Admits(event, t, sites, channels) ==
    LET qs == EventQueries(event, channels)
    IN \E k \in 1..Len(qs) : MatchesQuery(t, sites, channels, qs[k])

\* The admissible transitions of a SpectralEvent, in universe order.
ResolveSpectralEvent(event, sites, channels) ==
    LET Test(t) == Admits(event, t, sites, channels)
    IN SelectSeq(Universe(sites), Test)

\* ------------------------------------------- 4.5 the weight calculator
\* A weight is 0 or i^k * 2^(-e/2); the fixtures' 1, 0.25 and -0.25 are
\* (k, e) = (0, 0), (0, 4) and (2, 4).
Zero == [nz |-> FALSE, k |-> 0, e |-> 0]
One == [nz |-> TRUE, k |-> 0, e |-> 0]
Weight(k, e) == [nz |-> TRUE, k |-> k, e |-> e]

Mul(a, b) ==
    IF ~a.nz \/ ~b.nz THEN Zero
    ELSE [nz |-> TRUE, k |-> (a.k + b.k) % 4, e |-> a.e + b.e]

Conj(a) == IF ~a.nz THEN Zero ELSE [a EXCEPT !.k = (4 - a.k) % 4]

\* <to| R |from> of a spin-1/2 for a pulse of phase 0 and angle n * pi/2:
\* cos(angle/2) on the diagonal, -i sin(angle/2) off it.
RotationElement(to, from, n) ==
    IF to = from
    THEN CASE n = 0 -> One [] n = 1 -> Weight(0, 1) [] n = 2 -> Zero
    ELSE CASE n = 0 -> Zero [] n = 1 -> Weight(3, 1) [] n = 2 -> Weight(3, 0)

\* The angle a rotation query puts on a site: that of the channel of its
\* isotope, 0 for a site of no channel.
SiteAngle(isotope, channels, mq) ==
    LET named == {ch \in DOMAIN mq.query : channels[ChannelIndex(ch)] = isotope}
    IN IF named = {} THEN 0 ELSE mq.query[CHOOSE ch \in named : TRUE].angle

RECURSIVE ProductOver(_, _)
ProductOver(f, S) ==
    IF S = {} THEN One
    ELSE LET i == CHOOSE j \in S : TRUE IN Mul(f[i], ProductOver(f, S \ {i}))

\* The weight with a site the pulse does not turn counted as the factor 1,
\* whatever its states before and after.
RotationWeightUntouchedFree(from, to, sites, channels, mq) ==
    LET Factor(i) ==
            LET n == SiteAngle(sites[i], channels, mq)
            IN IF n = 0 THEN One
               ELSE Mul(RotationElement(to.initial[i], from.initial[i], n),
                        Conj(RotationElement(to.final[i], from.final[i], n)))
    IN ProductOver([i \in 1..Len(sites) |-> Factor(i)], 1..Len(sites))

\* Weight of the connection from one transition to another under a rotation
\* query: over the sites, <to.initial|R|from.initial> conj(<to.final|R|from.final>).
\* A site the pulse does not touch (angle 0) connects only equal states.
RotationWeight(from, to, sites, channels, mq) ==
    LET Factor(i) ==
            LET n == SiteAngle(sites[i], channels, mq)
            IN IF n = 0
               THEN (IF to.initial[i] = from.initial[i] /\ to.final[i] = from.final[i]
                     THEN One ELSE Zero)
               ELSE Mul(RotationElement(to.initial[i], from.initial[i], n),
                        Conj(RotationElement(to.final[i], from.final[i], n)))
    IN ProductOver([i \in 1..Len(sites) |-> Factor(i)], 1..Len(sites))

\* MixingEnum, and the rotation query {"ch1": {"angle": n * pi/2, "phase": 0}}.
NoMixing == [kind |-> "NoMixing"]
TotalMixing == [kind |-> "TotalMixing"]
Rotation(q) == [kind |-> "Rotation", query |-> q]

\* 4.3: the connection a MixingEvent's query makes between two transitions.
ConnectionWeight(from, to, sites, channels, mq) ==
    CASE mq.kind = "NoMixing" -> (IF from = to THEN One ELSE Zero)
      [] mq.kind = "TotalMixing" -> One
      [] mq.kind = "Rotation" -> RotationWeight(from, to, sites, channels, mq)

\* ------------------------------------------------ 4.4 the pathway assembler
RECURSIVE Flatten(_)
Flatten(ss) == IF ss = <<>> THEN <<>> ELSE Head(ss) \o Flatten(Tail(ss))

\* The events of the first dimension alone.
EventsOfFirstDimension(m) == m.spectral_dimensions[1].events

\* The events of a method, all dimensions concatenated in declaration order.
Events(m) ==
    Flatten([d \in 1..Len(m.spectral_dimensions) |-> m.spectral_dimensions[d].events])

IsSpectral(event) == "transition_queries" \in DOMAIN event
IsMixing(event) == "query" \in DOMAIN event

\* Without a MixingEvent only the equal transition follows a transition.
ExtendFrontierEqualOnly(front, adm, mq, sites, channels) ==
    LET na == Len(adm)
        Ext(k) ==
            LET p == front[((k - 1) \div na) + 1]
                t == adm[((k - 1) % na) + 1]
                w == IF p.pathway = <<>> THEN One
                     ELSE IF mq.kind = "None"
                     THEN (IF p.pathway[Len(p.pathway)] = t THEN One ELSE Zero)
                     ELSE ConnectionWeight(p.pathway[Len(p.pathway)], t, sites, channels, mq)
            IN [pathway |-> Append(p.pathway, t), weight |-> Mul(p.weight, w)]
        NonZero(p) == p.weight.nz
    IN SelectSeq([k \in 1..(Len(front) * na) |-> Ext(k)], NonZero)

\* Every partial extended by every admissible transition; after a MixingEvent
\* the partial's last transition is the "from", only the connections of
\* nonzero weight are kept and the weight is multiplied by the connection's.
ExtendFrontier(front, adm, mq, sites, channels) ==
    LET na == Len(adm)
        Ext(k) ==
            LET p == front[((k - 1) \div na) + 1]
                t == adm[((k - 1) % na) + 1]
                w == IF mq.kind = "None" \/ p.pathway = <<>> THEN One
                     ELSE ConnectionWeight(p.pathway[Len(p.pathway)], t, sites, channels, mq)
            IN [pathway |-> Append(p.pathway, t), weight |-> Mul(p.weight, w)]
        NonZero(p) == p.weight.nz
    IN SelectSeq([k \in 1..(Len(front) * na) |-> Ext(k)], NonZero)

\* Only the partials of positive real weight are kept.
PrunePositive(front) ==
    LET Positive(p) == p.weight.nz /\ p.weight.k = 0
    IN SelectSeq(front, Positive)

\* The partials of weight exactly zero are dropped from the result.
PruneZero(front) ==
    LET NonZero(p) == p.weight.nz
    IN SelectSeq(front, NonZero)

\* 7(a): a channel of the method that no site of the system has.
Malformed(sites, m) ==
    \E c \in 1..Len(m.channels) : SitesOf(sites, m.channels[c]) = {}

\* ------------------------------------------------------- the Isotope class
\* A Python dict of isotope data: d holds the keys with a numeric value, bad
\* the keys whose value is not a number, others the keys that are no data key
\* ("symbol", or a key the class does not know).
FieldNames ==
    {"spin_multiplicity", "gyromagnetic_ratio", "quadrupole_moment",
     "natural_abundance", "atomic_number"}

\* natural_abundance is in percent; the model holds it in 1/1000 percent.
Percent(n) == n * 1000

DEFAULT_ISOTOPE ==
    [spin_multiplicity |-> 1, gyromagnetic_ratio |-> 0, quadrupole_moment |-> 0,
     natural_abundance |-> Percent(100), atomic_number |-> 0]

NoFields == [k \in {} |-> 0]
Dict(d, bad, others) == [d |-> d, bad |-> bad, others |-> others, coerced |-> {}]

\* The dict with the values of some fields given as numeric strings, which
\* the validation of the class converts to the number held in d; as values
\* of the dict they equal no number.
Coerced(dict, fields) == [dict EXCEPT !.coerced = fields]

Digits == {"0", "1", "2", "3", "4", "5", "6", "7", "8", "9"}
Whitespace == {" "}
WordChars ==
    Digits \cup {"_"}
    \cup {"A", "B", "C", "D", "E", "F", "G", "H", "I", "J", "K", "L", "M",
          "N", "O", "P", "Q", "R", "S", "T", "U", "V", "W", "X", "Y", "Z"}
    \cup {"a", "b", "c", "d", "e", "f", "g", "h", "i", "j", "k", "l", "m",
          "n", "o", "p", "q", "r", "s", "t", "u", "v", "w", "x", "y", "z"}

\* Length of the longest prefix of s made of characters of the class.
RECURSIVE PrefixLen(_, _)
PrefixLen(s, class) ==
    IF s = <<>> \/ Head(s) \notin class THEN 0
    ELSE 1 + PrefixLen(Tail(s), class)

Drop(s, n) == SubSeq(s, n + 1, Len(s))

\* What an exception leaves where a string was expected.
Raised == <<>>

\* match(r"(\d+)\s*(\w+)", s) and f"{A}{isotope}": the digits, then the word
\* after optional whitespace; what follows the word is not looked at. With no
\* word after the digits the last of two or more digits is taken as the word.
\* Raised when there is no match.
FormattedString(s) ==
    LET nd == PrefixLen(s, Digits)
        afterDigits == Drop(s, nd)
        ns == PrefixLen(afterDigits, Whitespace)
        afterSpace == Drop(afterDigits, ns)
        nw == PrefixLen(afterSpace, WordChars)
    IN IF nd = 0 THEN Raised
       ELSE IF nw > 0 THEN SubSeq(s, 1, nd) \o SubSeq(afterSpace, 1, nw)
       ELSE IF nd >= 2 THEN SubSeq(s, 1, nd)
       ELSE Raised

\* format_isotope_string: a custom symbol is returned as it is; any other
\* string is formatted and must then be a key of ISOTOPE_DATA.
format_isotope_string(isotope_string, registry) ==
    IF isotope_string \in DOMAIN registry THEN isotope_string
    ELSE LET formatted_string == FormattedString(isotope_string)
         IN IF formatted_string = Raised THEN Raised
            ELSE IF formatted_string \notin DOMAIN ISOTOPE_DATA THEN Raised
            ELSE formatted_string

get_all_isotope_symbols(registry) == DOMAIN ISOTOPE_DATA \cup DOMAIN registry

\* get_isotope_dict: the stored dict of the formatted symbol, the built-in
\* table first, with "symbol" set to the formatted symbol.
get_isotope_dict(isotope_string, registry) ==
    LET formatted == format_isotope_string(isotope_string, registry)
    IN IF formatted = Raised THEN [symbol |-> Raised, dict |-> Dict(NoFields, {}, {})]
       ELSE IF formatted \in DOMAIN ISOTOPE_DATA
       THEN [symbol |-> formatted,
             dict |-> Dict(ISOTOPE_DATA[formatted], {}, {"symbol"})]
       ELSE [symbol |-> formatted,
             dict |-> [registry[formatted] EXCEPT !.others = @ \cup {"symbol"}]]

\* An Isotope object: the validated fields.
IsotopeObject(symbol, d) ==
    [symbol |-> symbol,
     spin_multiplicity |-> d.spin_multiplicity,
     gyromagnetic_ratio |-> d.gyromagnetic_ratio,
     quadrupole_moment |-> d.quadrupole_moment,
     natural_abundance |-> d.natural_abundance,
     atomic_number |-> d.atomic_number]

NoIsotope == IsotopeObject(Raised, [k \in FieldNames |-> 0])

\* What a call gives: its status ("ok" or the exception), the Isotope it
\* returned, and the registry it leaves.
Result(status, isotope, registry) ==
    [status |-> status, isotope |-> isotope, registry |-> registry]

\* BaseModel.__init__ on the dict: extra = "forbid", every field a number, the
\* symbol through validate_symbol.
Validate(symbol, dict, registry) ==
    IF \/ dict.others \ {"symbol"} # {}
       \/ dict.bad # {}
       \/ format_isotope_string(symbol, registry) = Raised
    THEN Result("ValidationError", NoIsotope, registry)
    ELSE Result("ok", IsotopeObject(format_isotope_string(symbol, registry), dict.d),
                registry)

\* The keyword arguments that differ from the stored dict of the symbol.
Conflicts(kwargs, stored) ==
    \/ \E k \in DOMAIN kwargs.d : k \in stored.bad \/ kwargs.d[k] # stored.d[k]
    \/ \E k \in DOMAIN kwargs.d : (k \in kwargs.coerced) # (k \in stored.coerced)
    \/ \E k \in kwargs.bad : k \notin stored.bad
    \/ \E k \in kwargs.others : k \notin stored.others

\* Isotope(symbol=symbol, **kwargs). A known symbol takes the stored data and
\* accepts only keyword arguments equal to it; any other symbol is entered
\* into custom_isotope_data with the defaults updated by the arguments, and
\* then validated.
Isotope__init__(symbol, kwargs, registry) ==
    IF symbol \in get_all_isotope_symbols(registry)
    THEN LET kwargs_new == get_isotope_dict(symbol, registry)
         IN IF kwargs_new.symbol # symbol \/ Conflicts(kwargs, kwargs_new.dict)
            THEN Result("ValueError", NoIsotope, registry)
            ELSE Validate(kwargs_new.symbol, kwargs_new.dict, registry)
    ELSE LET kwargs_new ==
                 Coerced(Dict(kwargs.d @@ DEFAULT_ISOTOPE, kwargs.bad,
                              kwargs.others \cup {"symbol"}), kwargs.coerced)
             registered == (symbol :> kwargs_new) @@ registry
         IN Validate(symbol, kwargs_new, registered)

\* The overlap check against the built-in table alone.
SymbolTakenBuiltIn(symbol, registry) == symbol \in DOMAIN ISOTOPE_DATA

\* The check for symbol overlap in the two dictionaries.
SymbolTaken(symbol, registry) ==
    symbol \in DOMAIN ISOTOPE_DATA \/ symbol \in DOMAIN registry

\* Isotope.add_new(symbol, **args): quadrupole_moment, natural_abundance and
\* atomic_number have defaults, spin_multiplicity and gyromagnetic_ratio are
\* required and no other keyword is taken.
\* The arguments of add_new with the defaults of its signature.
add_new_arguments(args) ==
    args.d @@ [quadrupole_moment |-> 0, natural_abundance |-> Percent(100),
               atomic_number |-> -1]

\* The call and its checks, up to the store: "ok" when every check passes,
\* else the exception raised.
add_new_checks(symbol, args, registry) ==
    LET given == DOMAIN args.d \cup args.bad
        d == add_new_arguments(args)
    IN IF \/ args.others # {}
          \/ ~({"spin_multiplicity", "gyromagnetic_ratio"} \subseteq given)
       THEN "TypeError"
       ELSE IF SymbolTaken(symbol, registry)
       THEN "ValueError"
       ELSE IF \/ "spin_multiplicity" \in args.bad \cup args.coerced
               \/ d.spin_multiplicity <= 1
       THEN "ValueError"
       ELSE IF "natural_abundance" \in args.bad \cup args.coerced
       THEN "TypeError"
       ELSE IF ~(0 <= d.natural_abundance /\ d.natural_abundance <= Percent(100))
       THEN "ValueError"
       ELSE IF "atomic_number" \in args.bad
       THEN "ValueError"
       ELSE "ok"

\* Isotope.custom_isotope_data[symbol] = {...}: the entry replaces any entry
\* the symbol has by then.
add_new_store(symbol, args, registry) ==
    LET d == add_new_arguments(args)
    IN (symbol :> Coerced(Dict([k \in FieldNames |->
                                    IF k \in args.bad THEN 0 ELSE d[k]],
                               args.bad, {}), args.coerced)) @@ registry

add_new(symbol, args, registry) ==
    LET checked == add_new_checks(symbol, args, registry)
    IN IF checked # "ok" THEN Result(checked, NoIsotope, registry)
       ELSE Isotope__init__(symbol, Dict(NoFields, {}, {}),
                            add_new_store(symbol, args, registry))

\* Isotope.get_isotope(val) for a string.
get_isotope_str(val, registry) ==
    IF val \notin get_all_isotope_symbols(registry)
    THEN Result("ValueError", NoIsotope, registry)
    ELSE Isotope__init__(val, Dict(NoFields, {}, {}), registry)

\* Isotope.get_isotope(val) for a dict with the key "symbol".
get_isotope_dictionary(symbol, val, registry) ==
    IF symbol \in get_all_isotope_symbols(registry)
    THEN IF DOMAIN val.d = {} /\ val.bad = {} /\ val.others = {}
         THEN Isotope__init__(symbol, Dict(NoFields, {}, {}), registry)
         ELSE LET stored == get_isotope_dict(symbol, registry)
              IN IF /\ stored.symbol = symbol
                    /\ val.d = stored.dict.d
                    /\ val.bad = stored.dict.bad
                    /\ val.coerced = stored.dict.coerced
                    /\ val.others \cup {"symbol"} = stored.dict.others
                 THEN Isotope__init__(symbol, Dict(NoFields, {}, {}), registry)
                 ELSE Result("ValueError", NoIsotope, registry)
    ELSE add_new(symbol, val, registry)

\* Isotope.dict(): every field of the object.
IsotopeAsDict(isotope) ==
    Dict([k \in FieldNames |-> isotope[k]], {}, {})

\* ------------------------------------------------------ the calls made
\* The symbols the calls use: a built-in one, '1 H' with whitespace, and a
\* name that is no mass number and element.
Spaced1H == <<"1", " ", "H">>
CustomName == <<"i", "s", "o">>
CallSymbols == {H1, Spaced1H, CustomName}

CallDicts ==
    {Dict(NoFields, {}, {}),
     Dict([spin_multiplicity |-> 2], {}, {}),
     Dict([spin_multiplicity |-> 4, gyromagnetic_ratio |-> 12345], {}, {}),
     Dict([spin_multiplicity |-> 1, gyromagnetic_ratio |-> 12345], {}, {}),
     Dict([spin_multiplicity |-> 4], {"gyromagnetic_ratio"}, {}),
     Coerced(Dict([spin_multiplicity |-> 4, gyromagnetic_ratio |-> 12345], {}, {}),
             {"gyromagnetic_ratio"}),
     Dict([spin_multiplicity |-> 4, gyromagnetic_ratio |-> 12345], {}, {"foo"}),
     Dict([spin_multiplicity |-> 4, gyromagnetic_ratio |-> 12345,
           natural_abundance |-> Percent(101)], {}, {})}

NoCall ==
    [op |-> "none", symbol |-> Raised, status |-> "ok", isotope |-> NoIsotope, value |-> 0]

Outcome(op, symbol, r) ==
    [op |-> op, symbol |-> symbol, status |-> r.status, isotope |-> r.isotope, value |-> 0]

CallIsotope(symbol, kwargs) ==
    LET r == Isotope__init__(symbol, kwargs, custom_isotope_data)
    IN /\ custom_isotope_data' = r.registry
       /\ outcome' = Outcome("Isotope", symbol, r)
       /\ UNCHANGED <<pathway_vars, thread_vars, distribution_vars, collection_vars>>

CallAddNew(symbol, args) ==
    LET r == add_new(symbol, args, custom_isotope_data)
    IN /\ custom_isotope_data' = r.registry
       /\ outcome' = Outcome("add_new", symbol, r)
       /\ UNCHANGED <<pathway_vars, thread_vars, distribution_vars, collection_vars>>

CallGetIsotopeStr(symbol) ==
    LET r == get_isotope_str(symbol, custom_isotope_data)
    IN /\ custom_isotope_data' = r.registry
       /\ outcome' = Outcome("get_isotope", symbol, r)
       /\ UNCHANGED <<pathway_vars, thread_vars, distribution_vars, collection_vars>>

CallGetIsotopeDict(symbol, val) ==
    LET r == get_isotope_dictionary(symbol, val, custom_isotope_data)
    IN /\ custom_isotope_data' = r.registry
       /\ outcome' = Outcome("get_isotope_dict", symbol, r)
       /\ UNCHANGED <<pathway_vars, thread_vars, distribution_vars, collection_vars>>

\* get_isotope(val) for the Isotope object the last call returned: val itself.
CallGetIsotopeObject ==
    /\ outcome.status = "ok"
    /\ outcome.op # "none"
    /\ outcome' = [outcome EXCEPT !.op = "get_isotope_object", !.symbol = outcome.isotope.symbol]
    /\ UNCHANGED custom_isotope_data
    /\ UNCHANGED <<pathway_vars, thread_vars, distribution_vars, collection_vars>>

\* get_isotope(isotope.dict()) for the Isotope object the last call returned.
CallGetIsotopeRoundTrip ==
    /\ outcome.status = "ok"
    /\ outcome.op # "none"
    /\ LET r == get_isotope_dictionary(outcome.isotope.symbol,
                                       IsotopeAsDict(outcome.isotope), custom_isotope_data)
       IN /\ custom_isotope_data' = r.registry
          /\ outcome' = Outcome("get_isotope_round_trip", outcome.isotope.symbol, r)
    /\ UNCHANGED <<pathway_vars, thread_vars, distribution_vars, collection_vars>>

\* isotope.spin for the Isotope object the last call returned: the property
\* looks the symbol up again and halves spin_multiplicity - 1; the model keeps
\* twice the spin.
spin(isotope, registry) ==
    get_isotope_dict(isotope.symbol, registry).dict.d.spin_multiplicity - 1

CallSpin ==
    /\ outcome.status = "ok"
    /\ outcome.op # "none"
    /\ outcome' = [outcome EXCEPT !.op = "spin", !.symbol = outcome.isotope.symbol,
                                  !.value = spin(outcome.isotope, custom_isotope_data)]
    /\ UNCHANGED custom_isotope_data
    /\ UNCHANGED <<pathway_vars, thread_vars, distribution_vars, collection_vars>>

IsotopeNext ==
    \/ \E symbol \in CallSymbols, kwargs \in CallDicts : CallIsotope(symbol, kwargs)
    \/ \E symbol \in CallSymbols, args \in CallDicts : CallAddNew(symbol, args)
    \/ \E symbol \in CallSymbols : CallGetIsotopeStr(symbol)
    \/ \E symbol \in CallSymbols, val \in CallDicts : CallGetIsotopeDict(symbol, val)
    \/ CallGetIsotopeObject
    \/ CallGetIsotopeRoundTrip
    \/ CallSpin


\* ------------------------------------------- add_new called from threads
\* Isotope.add_new takes no lock: between its overlap check, its store and the
\* Isotope(symbol=symbol) it returns, another thread may run. A thread is at
\* "idle" before its call, at "checked" after the checks passed, at "stored"
\* after it wrote the entry and at "done" with its result.
IdleThread ==
    [pc |-> "idle", symbol |-> Raised, args |-> Dict(NoFields, {}, {}),
     status |-> "ok", isotope |-> NoIsotope]

ThreadSymbols == {CustomName, H1}

ThreadDicts ==
    {Dict([spin_multiplicity |-> 4, gyromagnetic_ratio |-> 12345], {}, {}),
     Dict([spin_multiplicity |-> 2, gyromagnetic_ratio |-> 6789], {}, {}),
     Dict([spin_multiplicity |-> 1, gyromagnetic_ratio |-> 12345], {}, {})}

\* The call, the overlap check and the checks of the values.
AddNewCheck(t, symbol, args) ==
    /\ threads[t].pc = "idle"
    /\ LET checked == add_new_checks(symbol, args, custom_isotope_data)
       IN threads' = [threads EXCEPT ![t] =
              [pc |-> IF checked = "ok" THEN "checked" ELSE "done",
               symbol |-> symbol, args |-> args, status |-> checked,
               isotope |-> NoIsotope]]
    /\ UNCHANGED <<custom_isotope_data, outcome>>
    /\ UNCHANGED <<pathway_vars, distribution_vars, collection_vars>>

\* The store of the entry.
AddNewStore(t) ==
    /\ threads[t].pc = "checked"
    /\ custom_isotope_data' =
           add_new_store(threads[t].symbol, threads[t].args, custom_isotope_data)
    /\ threads' = [threads EXCEPT ![t].pc = "stored"]
    /\ UNCHANGED outcome
    /\ UNCHANGED <<pathway_vars, distribution_vars, collection_vars>>

\* return Isotope(symbol=symbol): built from what the registry holds by then.
AddNewReturn(t) ==
    /\ threads[t].pc = "stored"
    /\ LET r == Isotope__init__(threads[t].symbol, Dict(NoFields, {}, {}),
                                custom_isotope_data)
       IN /\ custom_isotope_data' = r.registry
          /\ threads' = [threads EXCEPT ![t].pc = "done", ![t].status = r.status,
                                        ![t].isotope = r.isotope]
    /\ UNCHANGED outcome
    /\ UNCHANGED <<pathway_vars, distribution_vars, collection_vars>>

ThreadNext ==
    \/ \E t \in 1..MaxThreads, symbol \in ThreadSymbols, args \in ThreadDicts :
           AddNewCheck(t, symbol, args)
    \/ \E t \in 1..MaxThreads : AddNewStore(t)
    \/ \E t \in 1..MaxThreads : AddNewReturn(t)

\* ------------------------------------------------- the Czjzek distributions
\* Python's None, and a value that is there.
None == <<>>
Some(v) == <<v>>

\* The tensors one call of _czjzek_random_distribution_tensors(sigma, n)
\* gives: an array of shape (n, 3, 3) whose entries are drawn from normal
\* distributions of standard deviation sigma and sqrt(3) sigma.  The drawn
\* numbers are left out; the array keeps its first axis and its sigma.
_czjzek_random_distribution_tensors(sigma, n) == [sigma |-> sigma, n |-> n]

\* AbstractDistribution.__init__: the cache starts empty.
AbstractDistribution(model_name, shift, abundance, polar, cache_tensors) ==
    [model_name |-> model_name,
     _cache_tensors |-> cache_tensors,
     _tensors |-> None,
     mean_isotropic_chemical_shift |-> shift,
     abundance |-> abundance,
     polar |-> polar,
     sigma |-> None,
     eps |-> None,
     symmetric_tensor |-> None]

\* The defaults of the constructors.
DefaultShift == 0
DefaultAbundance == 1
DefaultPolar == FALSE

\* CzjzekDistribution(sigma, polar=polar, cache=cache); the shift and the
\* abundance are left at their defaults.
CzjzekDistribution(sigma, polar, cache) ==
    [AbstractDistribution("czjzek", DefaultShift, DefaultAbundance, polar, cache)
        EXCEPT !.sigma = Some(sigma)]

\* ExtCzjzekDistribution(symmetric_tensor, eps, polar=polar, cache=cache).
ExtCzjzekDistribution(symmetric_tensor, eps, polar, cache) ==
    [AbstractDistribution("extended czjzek", DefaultShift, DefaultAbundance,
                          polar, cache)
        EXCEPT !.symmetric_tensor = Some(symmetric_tensor), !.eps = Some(eps)]

\* The tensors an rvs call works on, with the sigma it asks for: the cached
\* ones when the cache is on and filled, fresh ones otherwise.
TensorsOfCall(self, sigma, size) ==
    IF self._cache_tensors /\ self._tensors # None
    THEN self._tensors[1]
    ELSE _czjzek_random_distribution_tensors(sigma, size)

\* The cache after an rvs call.
CacheAfterCall(self, sigma, size) ==
    IF self._cache_tensors /\ self._tensors = None
    THEN Some(_czjzek_random_distribution_tensors(sigma, size))
    ELSE self._tensors

\* The sigma the two classes draw with: CzjzekDistribution its own sigma,
\* ExtCzjzekDistribution always 1.
SigmaOfCall(self) ==
    IF self.model_name = "czjzek" THEN self.sigma[1] ELSE 1

\* rvs of either class: a pair of arrays, each as long as the first axis of
\* the tensors the call worked on.
rvs(self, size) ==
    LET tensors == TensorsOfCall(self, SigmaOfCall(self), size)
    IN  [length |-> tensors.n, sigma |-> tensors.sigma, polar |-> self.polar]

\* param_prefix of the two classes.
param_prefix(self) ==
    IF self.model_name = "czjzek" THEN "czjzek" ELSE "ext_czjzek"

\* The f-string f"{prefix}_{i}_{name}".
ParameterName(prefix, i, name) == <<prefix, i, name>>

\* params.add(name, value=value, min=min, max=max): the entry is made or
\* replaced.
Add(parameters, name, value, min, max) ==
    [k \in DOMAIN parameters \cup {name} |->
        IF k = name THEN [value |-> value, min |-> min, max |-> max]
        ELSE parameters[k]]

\* zeta of get_lmfit_params and of update_lmfit_params: symmetric_tensor.zeta
\* when it is not None, symmetric_tensor.Cq otherwise.
ZetaOrCq(symmetric_tensor) ==
    IF symmetric_tensor.zeta # None THEN symmetric_tensor.zeta[1]
    ELSE symmetric_tensor.Cq[1]

\* get_lmfit_params of the two classes.
get_lmfit_params(self, parameters, i) ==
    IF self.model_name = "czjzek"
    THEN LET p1 == Add(parameters, ParameterName("czjzek", i, "sigma"),
                       self.sigma[1], Some(0), None)
             p2 == Add(p1, ParameterName("czjzek", i, "iso_shift"),
                       self.mean_isotropic_chemical_shift, None, None)
         IN  Add(p2, ParameterName("czjzek", i, "weight"),
                 self.abundance, Some(0), Some(1))
    ELSE LET prefix == param_prefix(self)
             p1 == Add(parameters, ParameterName(prefix, i, "zeta0"),
                       ZetaOrCq(self.symmetric_tensor[1]), None, None)
             p2 == Add(p1, ParameterName(prefix, i, "eta0"),
                       self.symmetric_tensor[1].eta, Some(0), Some(1))
             p3 == Add(p2, ParameterName(prefix, i, "epsilon"),
                       self.eps[1], Some(0), None)
             p4 == Add(p3, ParameterName(prefix, i, "iso_shift"),
                       self.mean_isotropic_chemical_shift, None, None)
         IN  Add(p4, ParameterName(prefix, i, "weight"),
                 self.abundance, Some(0), Some(1))

\* The attribute an lmfit parameter is read into by update_lmfit_params.
SetFromParameter(self, name, value) ==
    CASE name = "sigma" -> [self EXCEPT !.sigma = Some(value)]
      [] name = "epsilon" -> [self EXCEPT !.eps = Some(value)]
      [] name = "iso_shift" ->
            [self EXCEPT !.mean_isotropic_chemical_shift = value]
      [] name = "weight" -> [self EXCEPT !.abundance = value]
      [] name = "eta0" ->
            [self EXCEPT !.symmetric_tensor[1].eta = value]
      [] name = "zeta0" ->
            IF self.symmetric_tensor[1].zeta # None
            THEN [self EXCEPT !.symmetric_tensor[1].zeta = Some(value)]
            ELSE [self EXCEPT !.symmetric_tensor[1].Cq = Some(value)]

\* The parameters update_lmfit_params reads, in the order of its
\* assignments.
ParametersRead(self) ==
    IF self.model_name = "czjzek"
    THEN <<"sigma", "epsilon", "iso_shift", "weight">>
    ELSE <<"zeta0", "eta0", "epsilon", "iso_shift", "weight">>

\* The assignments of update_lmfit_params from the k-th on: params[name] of
\* a name that is not there raises KeyError and the assignments made before
\* it stay.
RECURSIVE AssignFrom(_, _, _, _)
AssignFrom(self, parameters, i, k) ==
    LET names == ParametersRead(self)
        key == ParameterName(param_prefix(self), i, names[k])
    IN  IF k > Len(names) THEN [self |-> self, raised |-> FALSE]
        ELSE IF key \notin DOMAIN parameters
        THEN [self |-> self, raised |-> TRUE]
        ELSE AssignFrom(SetFromParameter(self, names[k], parameters[key].value),
                        parameters, i, k + 1)

\* update_lmfit_params of the two classes.
update_lmfit_params(self, parameters, i) == AssignFrom(self, parameters, i, 1)

\* ------------------------------------------- the calls on a distribution
NoDistribution == AbstractDistribution("none", DefaultShift, DefaultAbundance, FALSE, FALSE)
NoParameters == [k \in {} |-> [value |-> 0, min |-> None, max |-> None]]

\* The record of a call: the operation, its arguments and what it gave.
Variates(op, i, size, length, sigma, raised) ==
    [op |-> op, i |-> i, size |-> size, length |-> length, sigma |-> sigma,
     raised |-> raised]
NoVariates == Variates("none", 0, 0, 0, 0, FALSE)

\* The indices given to get_lmfit_params and update_lmfit_params.
Indices == {0}

\* The tensors given to ExtCzjzekDistribution: zeta or Cq is set.
SymmetricTensors ==
    { [zeta |-> Some(z), Cq |-> None, eta |-> e] : z \in 1..MaxValue, e \in {0, 1} }
    \cup
    { [zeta |-> None, Cq |-> Some(z), eta |-> e] : z \in 1..MaxValue, e \in {0, 1} }

\* distribution = CzjzekDistribution(sigma, cache=cache)
NewCzjzek ==
    /\ distribution = NoDistribution
    /\ \E sigma \in 1..MaxValue, cache \in BOOLEAN :
          distribution' = CzjzekDistribution(sigma, DefaultPolar, cache)
    /\ variates' = Variates("__init__", 0, 0, 0, 0, FALSE)
    /\ UNCHANGED params
    /\ UNCHANGED <<pathway_vars, isotope_vars, thread_vars, collection_vars>>

\* distribution = ExtCzjzekDistribution(symmetric_tensor, eps, cache=cache)
NewExtCzjzek ==
    /\ distribution = NoDistribution
    /\ \E symmetric_tensor \in SymmetricTensors, eps \in 1..MaxValue,
          cache \in BOOLEAN :
          distribution' =
              ExtCzjzekDistribution(symmetric_tensor, eps, DefaultPolar, cache)
    /\ variates' = Variates("__init__", 0, 0, 0, 0, FALSE)
    /\ UNCHANGED params
    /\ UNCHANGED <<pathway_vars, isotope_vars, thread_vars, collection_vars>>

\* distribution.rvs(size)
CallRvs ==
    /\ distribution # NoDistribution
    /\ \E size \in 1..MaxSize :
          LET sigma == SigmaOfCall(distribution)
              drawn == rvs(distribution, size)
          IN  /\ distribution' =
                    [distribution EXCEPT
                        !._tensors = CacheAfterCall(distribution, sigma, size)]
              /\ variates' = Variates("rvs", 0, size, drawn.length,
                                      drawn.sigma, FALSE)
    /\ UNCHANGED params
    /\ UNCHANGED <<pathway_vars, isotope_vars, thread_vars, collection_vars>>

\* distribution.sigma = sigma
SetSigma ==
    /\ distribution.model_name = "czjzek"
    /\ \E sigma \in 1..MaxValue :
          /\ distribution' = [distribution EXCEPT !.sigma = Some(sigma)]
          /\ variates' = Variates("sigma", 0, 0, 0, sigma, FALSE)
    /\ UNCHANGED params
    /\ UNCHANGED <<pathway_vars, isotope_vars, thread_vars, collection_vars>>

\* distribution.get_lmfit_params(params, i)
CallGetLmfitParams ==
    /\ distribution # NoDistribution
    /\ \E i \in Indices :
          /\ params' = get_lmfit_params(distribution, params, i)
          /\ variates' = Variates("get_lmfit_params", i, 0, 0, 0, FALSE)
    /\ UNCHANGED distribution
    /\ UNCHANGED <<pathway_vars, isotope_vars, thread_vars, collection_vars>>

\* The fit moves one parameter to a value within its bounds.
FitStep ==
    /\ \E name \in DOMAIN params, value \in 1..MaxValue :
          /\ params[name].max # None => value <= params[name].max[1]
          /\ params[name].min # None => value >= params[name].min[1]
          /\ params' = [params EXCEPT ![name].value = value]
    /\ variates' = Variates("fit", 0, 0, 0, 0, FALSE)
    /\ UNCHANGED distribution
    /\ UNCHANGED <<pathway_vars, isotope_vars, thread_vars, collection_vars>>

\* distribution.update_lmfit_params(params, i)
CallUpdateLmfitParams ==
    /\ distribution # NoDistribution
    /\ \E i \in Indices :
          LET updated == update_lmfit_params(distribution, params, i)
          IN  /\ distribution' = updated.self
              /\ variates' = Variates("update_lmfit_params", i, 0, 0, 0,
                                      updated.raised)
    /\ UNCHANGED params
    /\ UNCHANGED <<pathway_vars, isotope_vars, thread_vars, collection_vars>>

DistributionNext ==
    \/ NewCzjzek
    \/ NewExtCzjzek
    \/ CallRvs
    \/ SetSigma
    \/ CallGetLmfitParams
    \/ FitStep
    \/ CallUpdateLmfitParams

\* ------------------------------------------------------ generate_site_list
\* An argument is a scalar (a float, an int, a str or None) or a list.
Scalar(v) == [list |-> FALSE, items |-> <<v>>]
List(items) == [list |-> TRUE, items |-> items]

\* np.asarray(attr).size
Size(attr) == Len(attr.items)

\* The smallest of a set of lengths, 0 for no length at all: where zip stops.
Shortest(lengths) ==
    IF lengths = {} THEN 0
    ELSE CHOOSE l \in lengths : \A m \in lengths : l <= m

\* _check_lengths(attributes): 1 when every size is 1, the one size that is
\* not 1 when there is exactly one, ValueError otherwise.
_check_lengths(attributes) ==
    LET lengths == [k \in DOMAIN attributes |-> Size(attributes[k])]
        others == { lengths[k] : k \in { j \in DOMAIN lengths : lengths[j] # 1 } }
    IN  IF \A k \in DOMAIN lengths : lengths[k] = 1
        THEN [raised |-> FALSE, n |-> 1]
        ELSE IF Cardinality(others) = 1
        THEN [raised |-> FALSE, n |-> CHOOSE l \in others : TRUE]
        ELSE [raised |-> TRUE, n |-> 0]

\* _extend_to_nparray(item, n): a list is kept as it is, whatever its
\* length; anything else is repeated n times.
_extend_to_nparray(item, n) ==
    IF item.list THEN item.items ELSE [k \in 1..n |-> item.items[1]]

\* _extend_dict_values(_dict, n): every value extended, ValueError when one
\* of them has not the length n.
_extend_dict_values(_dict, n) ==
    LET extended == [key \in DOMAIN _dict |-> _extend_to_nparray(_dict[key], n)]
    IN  [raised |-> \E key \in DOMAIN extended : Len(extended[key]) # n,
         dict |-> extended]

\* _zip_dict(_dict): the list of the dicts of the i-th values.
_zip_dict(_dict) ==
    [i \in 1..Shortest({ Len(_dict[key]) : key \in DOMAIN _dict }) |->
        Some([key \in DOMAIN _dict |-> _dict[key][i]])]

\* The attribute list entry of a dict argument: None repeated when the
\* argument is None, the zipped dict otherwise.
DictAttribute(_dict, n) ==
    IF _dict = None
    THEN [raised |-> FALSE, items |-> _extend_to_nparray(Scalar(None), n)]
    ELSE LET extended == _extend_dict_values(_dict[1], n)
         IN  [raised |-> extended.raised,
              items |-> IF extended.raised THEN <<>>
                        ELSE _zip_dict(extended.dict)]

Site(iso, shift, symm, antisymm, quad, name, label, desc) ==
    [isotope |-> iso, isotropic_chemical_shift |-> shift,
     shielding_symmetric |-> symm, shielding_antisymmetric |-> antisymm,
     quadrupolar |-> quad, name |-> name, label |-> label,
     description |-> desc]

\* generate_site_list(...): the lengths are checked on the five plain
\* attributes, the dicts are extended to the length found, and one Site is
\* made per tuple of zip(*attributes), which stops at the shortest.
generate_site_list(isotopes, isotropic_chemical_shifts, shielding_symmetric, shielding_antisymmetric, quadrupolars, site_names, site_labels, site_descriptions) ==
    LET plain == <<isotopes, isotropic_chemical_shifts, site_names,
                   site_labels, site_descriptions>>
        checked == _check_lengths(plain)
        n_sites == checked.n
        attributes == [k \in 1..5 |-> _extend_to_nparray(plain[k], n_sites)]
        symm == DictAttribute(shielding_symmetric, n_sites)
        antisymm == DictAttribute(shielding_antisymmetric, n_sites)
        quad == DictAttribute(quadrupolars, n_sites)
        zipped == Shortest({ Len(attributes[k]) : k \in 1..5 }
                           \cup {Len(symm.items), Len(antisymm.items),
                                 Len(quad.items)})
    IN  IF checked.raised \/ symm.raised \/ antisymm.raised \/ quad.raised
        THEN [raised |-> TRUE, sites |-> <<>>]
        ELSE [raised |-> FALSE,
              sites |-> [i \in 1..zipped |->
                  Site(attributes[1][i], attributes[2][i], symm.items[i],
                       antisymm.items[i], quad.items[i], attributes[3][i],
                       attributes[4][i], attributes[5][i])]]

\* The sequences of length at most MaxListLen over a set of values.
ListsOver(values) == UNION { [1..l -> values] : l \in 0..MaxListLen }

\* The arguments given: a scalar or a list for the isotopes, the shifts and
\* the names, None or a dict with a scalar or a list for the symmetric
\* shielding, the defaults for the rest.
IsotopeArguments ==
    {Scalar("1H"), Scalar("13C")} \cup { List(l) : l \in ListsOver({"1H", "13C"}) }
ShiftArguments ==
    {Scalar(0)} \cup { List(l) : l \in ListsOver({1, 2}) }
NameArguments ==
    {Scalar(None)} \cup { List([k \in 1..l |-> Some(k)]) : l \in 1..MaxListLen }
ZetaArguments ==
    {Scalar(1)} \cup { List([k \in 1..l |-> k]) : l \in 1..MaxListLen }
ShieldingArguments ==
    {None} \cup { Some([zeta |-> z, eta |-> Scalar(0)]) : z \in ZetaArguments }

NoSiteList == [called |-> FALSE, arguments |-> <<>>, raised |-> FALSE, sites |-> <<>>]

\* generate_site_list(isotopes, isotropic_chemical_shifts,
\*                    shielding_symmetric=..., site_names=...)
CallGenerateSiteList ==
    /\ ~site_list.called
    /\ \E isotopes \in IsotopeArguments, shifts \in ShiftArguments,
          names \in NameArguments, shielding \in ShieldingArguments :
          LET made == generate_site_list(isotopes, shifts, shielding, None,
                                         None, names, Scalar(None),
                                         Scalar(None))
          IN  site_list' = [called |-> TRUE,
                            arguments |-> <<isotopes, shifts, names, shielding>>,
                            raised |-> made.raised,
                            sites |-> made.sites]
    /\ UNCHANGED <<pathway_vars, isotope_vars, thread_vars, distribution_vars>>

CollectionNext == CallGenerateSiteList

\* --------------------------------------- the methods and systems of the tests
SpectralEvent(queries) == [transition_queries |-> queries]
MixingEvent(mq) == [query |-> mq]
SpectralDimension(events) == [events |-> events]
Transition(initial, final) == [initial |-> initial, final |-> final]
TransitionPathway(pathway, weight) == [pathway |-> pathway, weight |-> weight]

\* {"ch1": {"P": [p]}}
QueryP(p) == [ch1 |-> [P |-> <<p>>]]

method1 ==
    [channels |-> <<C13>>,
     spectral_dimensions |-> <<SpectralDimension(<<SpectralEvent(<<QueryP(-1)>>)>>)>>]

\* method2 with the query of method1.
method2_SingleQuantum ==
    [channels |-> <<C13>>,
     spectral_dimensions |-> <<SpectralDimension(<<SpectralEvent(<<QueryP(-1)>>)>>)>>]

method2 ==
    [channels |-> <<C13>>,
     spectral_dimensions |-> <<SpectralDimension(<<SpectralEvent(<<QueryP(-2)>>)>>)>>]

\* angle pi is 2 quarter turns of pi/2, angle pi/2 is 1.
\* The echo with a pi/2 pulse in place of the pi pulse.
hahn_HalfPulse ==
    [channels |-> <<C13>>,
     spectral_dimensions |-> <<SpectralDimension(<<
         SpectralEvent(<<QueryP(1)>>),
         MixingEvent(Rotation([ch1 |-> [angle |-> 1, phase |-> 0]])),
         SpectralEvent(<<QueryP(-1)>>)>>)>>]

hahn ==
    [channels |-> <<C13>>,
     spectral_dimensions |-> <<SpectralDimension(<<
         SpectralEvent(<<QueryP(1)>>),
         MixingEvent(Rotation([ch1 |-> [angle |-> 2, phase |-> 0]])),
         SpectralEvent(<<QueryP(-1)>>)>>)>>]

\* COSY with a pi pulse in place of the pi/2 pulse.
cosy_FullPulse ==
    [channels |-> <<H1>>,
     spectral_dimensions |-> <<
         SpectralDimension(<<
             SpectralEvent(<<QueryP(-1)>>),
             MixingEvent(Rotation([ch1 |-> [angle |-> 2, phase |-> 0]]))>>),
         SpectralDimension(<<SpectralEvent(<<QueryP(-1)>>)>>)>>]

cosy ==
    [channels |-> <<H1>>,
     spectral_dimensions |-> <<
         SpectralDimension(<<
             SpectralEvent(<<QueryP(-1)>>),
             MixingEvent(Rotation([ch1 |-> [angle |-> 1, phase |-> 0]]))>>),
         SpectralDimension(<<SpectralEvent(<<QueryP(-1)>>)>>)>>]

\* The total-mixing method with MixingEnum.NoMixing written for TotalMixing.
total_mix_NoMixing ==
    [channels |-> <<H1>>,
     spectral_dimensions |-> <<
         SpectralDimension(<<SpectralEvent(<<QueryP(-1)>>), MixingEvent(NoMixing)>>),
         SpectralDimension(<<SpectralEvent(<<QueryP(-1)>>)>>)>>]

total_mix ==
    [channels |-> <<H1>>,
     spectral_dimensions |-> <<
         SpectralDimension(<<SpectralEvent(<<QueryP(-1)>>), MixingEvent(TotalMixing)>>),
         SpectralDimension(<<SpectralEvent(<<QueryP(-1)>>)>>)>>]

\* The no-mixing method with MixingEnum.TotalMixing written for NoMixing.
no_mix_TotalMixing ==
    [channels |-> <<H1>>,
     spectral_dimensions |-> <<
         SpectralDimension(<<SpectralEvent(<<QueryP(-1)>>), MixingEvent(TotalMixing)>>),
         SpectralDimension(<<SpectralEvent(<<QueryP(-1)>>)>>)>>]

no_mix ==
    [channels |-> <<H1>>,
     spectral_dimensions |-> <<
         SpectralDimension(<<SpectralEvent(<<QueryP(-1)>>), MixingEvent(NoMixing)>>),
         SpectralDimension(<<SpectralEvent(<<QueryP(-1)>>)>>)>>]

system_00 == <<C13>>
system_01 == <<C13, H1>>
system_02 == <<C13, C13>>
system_04 == <<C13, C13, N14>>
system_cosy == <<H1, H1>>
system_mixing == <<H1, N14>>

\* One single-transition pathway of weight 1 per (initial, final) pair.
Singles(pairs) ==
    [k \in 1..Len(pairs) |->
        TransitionPathway(<<Transition(pairs[k][1], pairs[k][2])>>, One)]

\* assert_transitions: a pathway per row of the array, a weight per entry.
Expected(rows, weights) ==
    [k \in 1..Len(rows) |->
        TransitionPathway(
            [j \in 1..Len(rows[k]) |-> Transition(rows[k][j][1], rows[k][j][2])],
            weights[k])]

expected_00 == Singles(<< <<<<1>>, <<-1>>>> >>)

expected_01 ==
    Singles(<< <<<<1, -1>>, <<-1, -1>>>>,
               <<<<1, 1>>, <<-1, 1>>>> >>)

expected_02 ==
    Singles(<< <<<<1, -1>>, <<-1, -1>>>>,
               <<<<1, 1>>, <<-1, 1>>>>,
               <<<<-1, 1>>, <<-1, -1>>>>,
               <<<<1, 1>>, <<1, -1>>>> >>)

expected_03 == <<>>

expected_04 ==
    Singles(<< <<<<1, -1, -2>>, <<-1, -1, -2>>>>,
               <<<<1, 1, -2>>, <<-1, 1, -2>>>>,
               <<<<-1, 1, -2>>, <<-1, -1, -2>>>>,
               <<<<1, 1, -2>>, <<1, -1, -2>>>>,
               <<<<1, -1, 0>>, <<-1, -1, 0>>>>,
               <<<<1, 1, 0>>, <<-1, 1, 0>>>>,
               <<<<-1, 1, 0>>, <<-1, -1, 0>>>>,
               <<<<1, 1, 0>>, <<1, -1, 0>>>>,
               <<<<1, -1, 2>>, <<-1, -1, 2>>>>,
               <<<<1, 1, 2>>, <<-1, 1, 2>>>>,
               <<<<-1, 1, 2>>, <<-1, -1, 2>>>>,
               <<<<1, 1, 2>>, <<1, -1, 2>>>> >>)

expected_hahn ==
    Expected(<< << <<<<-1, -1>>, <<-1, 1>>>>, <<<<1, 1>>, <<1, -1>>>> >>,
                << <<<<-1, -1>>, <<1, -1>>>>, <<<<1, 1>>, <<-1, 1>>>> >>,
                << <<<<-1, 1>>, <<1, 1>>>>, <<<<1, -1>>, <<-1, -1>>>> >>,
                << <<<<1, -1>>, <<1, 1>>>>, <<<<-1, 1>>, <<-1, -1>>>> >> >>,
             <<One, One, One, One>>)

Quarter == Weight(0, 4)
MinusQuarter == Weight(2, 4)

cosy_T1 == <<<<-1, 1>>, <<-1, -1>>>>
cosy_T2 == <<<<1, -1>>, <<-1, -1>>>>
cosy_T3 == <<<<1, 1>>, <<-1, 1>>>>
cosy_T4 == <<<<1, 1>>, <<1, -1>>>>

expected_cosy ==
    Expected(<< <<cosy_T1, cosy_T1>>, <<cosy_T1, cosy_T2>>,
                <<cosy_T1, cosy_T3>>, <<cosy_T1, cosy_T4>>,
                <<cosy_T2, cosy_T1>>, <<cosy_T2, cosy_T2>>,
                <<cosy_T2, cosy_T3>>, <<cosy_T2, cosy_T4>>,
                <<cosy_T3, cosy_T1>>, <<cosy_T3, cosy_T2>>,
                <<cosy_T3, cosy_T3>>, <<cosy_T3, cosy_T4>>,
                <<cosy_T4, cosy_T1>>, <<cosy_T4, cosy_T2>>,
                <<cosy_T4, cosy_T3>>, <<cosy_T4, cosy_T4>> >>,
             <<Quarter, MinusQuarter, Quarter, Quarter,
               MinusQuarter, Quarter, Quarter, Quarter,
               Quarter, Quarter, Quarter, MinusQuarter,
               Quarter, Quarter, MinusQuarter, Quarter>>)

mix_T1 == <<<<1, -2>>, <<-1, -2>>>>
mix_T2 == <<<<1, 0>>, <<-1, 0>>>>
mix_T3 == <<<<1, 2>>, <<-1, 2>>>>

expected_total_mixing ==
    Expected(<< <<mix_T1, mix_T1>>, <<mix_T1, mix_T2>>, <<mix_T1, mix_T3>>,
                <<mix_T2, mix_T1>>, <<mix_T2, mix_T2>>, <<mix_T2, mix_T3>>,
                <<mix_T3, mix_T1>>, <<mix_T3, mix_T2>>, <<mix_T3, mix_T3>> >>,
             <<One, One, One, One, One, One, One, One, One>>)

expected_no_mixing ==
    Expected(<< <<mix_T1, mix_T1>>, <<mix_T2, mix_T2>>, <<mix_T3, mix_T3>> >>,
             <<One, One, One>>)

\* ------------------------------------------------------------- the inputs
\* Spin systems of 1 .. MaxSites sites, at most MaxQuadSites of them 14N.
PathwayIsotopes == {C13, H1, N14}

SpinSystems ==
    {s \in UNION {[1..n -> PathwayIsotopes] : n \in 1..MaxSites} :
        Cardinality(SitesOf(s, N14)) <= MaxQuadSites}

\* The pulses of the tests and the pulse of angle 0, on ch1.
MixingQueries ==
    {NoMixing, TotalMixing}
    \cup {Rotation([ch1 |-> [angle |-> n, phase |-> 0]]) : n \in {0, 1, 2}}

\* The shapes of the tests' methods on either spin-1/2 channel: one event;
\* two events with a MixingEvent closing the first dimension (cosy, total_mix,
\* no_mix); two events around a MixingEvent in one dimension (hahn).
OneEvent(ch, p) ==
    [channels |-> <<ch>>,
     spectral_dimensions |-> <<SpectralDimension(<<SpectralEvent(<<QueryP(p)>>)>>)>>]

TwoDimensions(ch, a, mq, b) ==
    [channels |-> <<ch>>,
     spectral_dimensions |-> <<
         SpectralDimension(<<SpectralEvent(<<QueryP(a)>>), MixingEvent(mq)>>),
         SpectralDimension(<<SpectralEvent(<<QueryP(b)>>)>>)>>]

OneDimension(ch, a, mq, b) ==
    [channels |-> <<ch>>,
     spectral_dimensions |-> <<SpectralDimension(<<
         SpectralEvent(<<QueryP(a)>>), MixingEvent(mq), SpectralEvent(<<QueryP(b)>>)>>)>>]

TestMethods == {method1, method2, hahn, cosy, total_mix, no_mix}

Methods ==
    TestMethods
    \cup {OneEvent(ch, p) : ch \in {C13, H1}, p \in {-2, -1, 1}}
    \cup {TwoDimensions(ch, -1, mq, -1) : ch \in {C13, H1}, mq \in MixingQueries}
    \cup {OneDimension(ch, 1, mq, -1) : ch \in {C13, H1}, mq \in MixingQueries}
    \cup {TwoDimensions(C13, -2, mq, -1) : mq \in {NoMixing, TotalMixing}}

\* One-event methods for the matcher: queries with P, with D, with both and
\* with several allowed values, on one channel or on two, and events with no
\* query, one query or two.
QuerySystems == {sites \in SpinSystems : Len(sites) <= MaxQuerySites}

Queries1 ==
    {[ch1 |-> [P |-> <<-1>>]],
     [ch1 |-> [P |-> <<0, 1>>]],
     [ch1 |-> [P |-> <<-1>>, D |-> <<1>>]],
     [ch1 |-> [D |-> <<-1>>]]}

Queries2 ==
    {[ch1 |-> [P |-> <<-1>>], ch2 |-> [P |-> <<0>>]],
     [ch1 |-> [P |-> <<-1>>]],
     [ch2 |-> [P |-> <<1>>]],
     [ch1 |-> [P |-> <<0>>], ch2 |-> [P |-> <<-1, 1>>]]}

UpToTwo(Q) == {<<>>} \cup {<<q>> : q \in Q} \cup {<<q, r>> : q \in Q, r \in Q}

QueryMethod(channels, queries) ==
    [channels |-> channels,
     spectral_dimensions |-> <<SpectralDimension(<<SpectralEvent(queries)>>)>>]

QueryMethods ==
    {QueryMethod(<<ch>>, qs) : ch \in {H1, N14}, qs \in UpToTwo(Queries1)}
    \cup {QueryMethod(<<C13, H1>>, qs) : qs \in UpToTwo(Queries2)}

\* Two SpectralEvents with no MixingEvent between them, in one dimension
\* and in two, and the same methods with TotalMixing between the two.
TwoSpectralOneDimension(ch, a, b) ==
    [channels |-> <<ch>>,
     spectral_dimensions |-> <<SpectralDimension(<<
         SpectralEvent(<<QueryP(a)>>), SpectralEvent(<<QueryP(b)>>)>>)>>]

TwoSpectralTwoDimensions(ch, a, b) ==
    [channels |-> <<ch>>,
     spectral_dimensions |-> <<
         SpectralDimension(<<SpectralEvent(<<QueryP(a)>>)>>),
         SpectralDimension(<<SpectralEvent(<<QueryP(b)>>)>>)>>]

ConsecutiveMethods ==
    UNION { {TwoSpectralOneDimension(ch, a, b),
             TwoSpectralTwoDimensions(ch, a, b),
             OneDimension(ch, a, TotalMixing, b),
             TwoDimensions(ch, a, TotalMixing, b)} :
               ch \in {C13, H1}, a \in {-1, 1}, b \in {-1, 1} }

\* ------------------------------------------- get_transition_pathways
NoMethod == [channels |-> <<>>, spectral_dimensions |-> <<>>]

\* No resolution under way, no custom isotope registered, no call made.
Init ==
    /\ pc = "idle"
    /\ spin_system = <<>>
    /\ method = NoMethod
    /\ evt = 0
    /\ pending = NoPending
    /\ frontier = <<>>
    /\ pathways = <<>>
    /\ custom_isotope_data = [s \in {} |-> Dict(NoFields, {}, {})]
    /\ outcome = NoCall
    /\ threads = [t \in 1..MaxThreads |-> IdleThread]
    /\ distribution = NoDistribution
    /\ params = NoParameters
    /\ variates = NoVariates
    /\ site_list = NoSiteList

\* method.get_transition_pathways(spin_system): the frontier is seeded with
\* one empty pathway of weight 1.
Start(sites, m) ==
    /\ UNCHANGED <<isotope_vars, thread_vars, distribution_vars, collection_vars>>
    /\ pc = "idle"
    /\ ~Malformed(sites, m)
    /\ pc' = "run"
    /\ spin_system' = sites
    /\ method' = m
    /\ evt' = 1
    /\ pending' = NoPending
    /\ frontier' = <<TransitionPathway(<<>>, One)>>
    /\ pathways' = <<>>

\* A query on a channel the spin system does not have is reported at the start.
StartMalformed(sites, m) ==
    /\ UNCHANGED <<isotope_vars, thread_vars, distribution_vars, collection_vars>>
    /\ pc = "idle"
    /\ Malformed(sites, m)
    /\ pc' = "error"
    /\ spin_system' = sites
    /\ method' = m
    /\ UNCHANGED <<evt, pending, frontier, pathways>>

StepSpectral ==
    /\ UNCHANGED <<isotope_vars, thread_vars, distribution_vars, collection_vars>>
    /\ pc = "run"
    /\ evt <= Len(Events(method))
    /\ IsSpectral(Events(method)[evt])
    /\ frontier' = ExtendFrontier(frontier,
                       ResolveSpectralEvent(Events(method)[evt], spin_system, method.channels),
                       pending, spin_system, method.channels)
    /\ pending' = NoPending
    /\ evt' = evt + 1
    /\ UNCHANGED <<pc, spin_system, method, pathways>>

\* A MixingEvent that closes its dimension is forgotten at the boundary.
StepMixingWithinDimension ==
    /\ UNCHANGED <<isotope_vars, thread_vars, distribution_vars, collection_vars>>
    /\ pc = "run"
    /\ evt <= Len(Events(method))
    /\ IsMixing(Events(method)[evt])
    /\ pending' =
          IF \E d \in 1..Len(method.spectral_dimensions) :
                 evt = Len(Flatten([e \in 1..d |->
                                       method.spectral_dimensions[e].events]))
          THEN NoPending
          ELSE Events(method)[evt].query
    /\ evt' = evt + 1
    /\ UNCHANGED <<pc, spin_system, method, frontier, pathways>>

\* A MixingEvent adds nothing to the pathways; its query waits for the next
\* SpectralEvent, in this dimension or in the next.
StepMixing ==
    /\ UNCHANGED <<isotope_vars, thread_vars, distribution_vars, collection_vars>>
    /\ pc = "run"
    /\ evt <= Len(Events(method))
    /\ IsMixing(Events(method)[evt])
    /\ pending' = Events(method)[evt].query
    /\ evt' = evt + 1
    /\ UNCHANGED <<pc, spin_system, method, frontier, pathways>>

Finish ==
    /\ UNCHANGED <<isotope_vars, thread_vars, distribution_vars, collection_vars>>
    /\ pc = "run"
    /\ evt > Len(Events(method))
    /\ pathways' = PruneZero(frontier)
    /\ pc' = "done"
    /\ UNCHANGED <<spin_system, method, evt, pending, frontier>>

\* The caller takes the list (or the error); the next resolution starts afresh.
Return ==
    /\ UNCHANGED <<isotope_vars, thread_vars, distribution_vars, collection_vars>>
    /\ pc \in {"done", "error"}
    /\ pc' = "idle"
    /\ spin_system' = <<>>
    /\ method' = NoMethod
    /\ evt' = 0
    /\ pending' = NoPending
    /\ frontier' = <<>>
    /\ pathways' = <<>>

PathwayNext ==
    \/ \E sites \in SpinSystems, m \in Methods : Start(sites, m)
    \/ \E sites \in SpinSystems, m \in Methods : StartMalformed(sites, m)
    \/ StepSpectral
    \/ StepMixing
    \/ Finish
    \/ Return

SpecPathways == Init /\ [][PathwayNext]_vars

SpecIsotope == Init /\ [][IsotopeNext]_vars

SpecThreads == Init /\ [][ThreadNext]_vars

\* The resolutions of the one-event methods of the matcher.
QueryNext ==
    \/ \E sites \in QuerySystems, m \in QueryMethods : Start(sites, m)
    \/ \E sites \in QuerySystems, m \in QueryMethods : StartMalformed(sites, m)
    \/ StepSpectral
    \/ Finish
    \/ Return

SpecQueries == Init /\ [][QueryNext]_vars

\* get_transition_pathways on the methods of two SpectralEvents.
ConsecutiveNext ==
    \/ \E sites \in QuerySystems, m \in ConsecutiveMethods : Start(sites, m)
    \/ \E sites \in QuerySystems, m \in ConsecutiveMethods : StartMalformed(sites, m)
    \/ StepSpectral
    \/ StepMixing
    \/ Finish
    \/ Return

SpecConsecutive == Init /\ [][ConsecutiveNext]_vars

SpecDistribution == Init /\ [][DistributionNext]_vars

SpecCollection == Init /\ [][CollectionNext]_vars

\* ------------------------------------------------------------ the claims
RECURSIVE Pow2(_)
Pow2(n) == IF n = 0 THEN 1 ELSE 2 * Pow2(n - 1)

\* How many returned pathways consist of exactly the transitions ts.
Occurrences(ts) == Cardinality({k \in 1..Len(pathways) : pathways[k].pathway = ts})

\* The transition sequences of the returned pathways, as a set.
Returned == {pathways[k].pathway : k \in 1..Len(pathways)}

\* No two returned pathways have the same transitions.
NoneTwice == Cardinality(Returned) = Len(pathways)

AllWeightOne == \A k \in 1..Len(pathways) : pathways[k].weight = One

\* check_transition_set: as many pathways as expected, each one expected.
SameTransitionSet(got, expected) ==
    /\ Len(got) = Len(expected)
    /\ \A k \in 1..Len(got) : InSeq(got[k], expected)

\* The transitions the first and the last SpectralEvent of the running method select.
FirstSelected ==
    ResolveSpectralEvent(Events(method)[1], spin_system, method.channels)
LastSelected ==
    ResolveSpectralEvent(Events(method)[Len(Events(method))], spin_system, method.channels)

\* Exactly one site of the isotope goes from +1/2 to -1/2, every other site stays.
OneSiteFlipsDown(t, sites, isotope) ==
    \E i \in SitesOf(sites, isotope) :
        /\ t.initial[i] = 1
        /\ t.final[i] = -1
        /\ \A j \in 1..Len(sites) : j # i => t.final[j] = t.initial[j]

\* C1: for the one-event method with the query P=[-1] on 13C, the returned
\* pathways are the single transitions in which exactly one 13C site goes from
\* +1/2 to -1/2 and every other site keeps its state, each exactly once and
\* nothing else.
C1_OneSiteFlips ==
    (pc = "done" /\ method = method1) =>
        LET U == Universe(spin_system)
        IN /\ Returned = {<<U[k]>> : k \in {j \in 1..Len(U) :
                                OneSiteFlipsDown(U[j], spin_system, C13)}}
           /\ NoneTwice

\* C2: with NoMixing between two spectral events that select the same
\* transitions, the result is one pathway <<t, t>> of weight 1 per selected
\* transition t and nothing else; on the 1H + 14N system it is the list of
\* test_no_mixing.
C2_NoMixing ==
    /\ (pc = "done" /\ method \in {TwoDimensions(ch, -1, NoMixing, -1) : ch \in {C13, H1}}) =>
          LET A == FirstSelected
          IN /\ Returned = {<<A[k], A[k]>> : k \in 1..Len(A)}
             /\ Len(pathways) = Len(A)
             /\ NoneTwice
             /\ AllWeightOne
    /\ (pc = "done" /\ method = no_mix /\ spin_system = system_mixing) =>
          pathways = expected_no_mixing

C2_Witness ==
    /\ pc = "done"
    /\ method = no_mix
    /\ spin_system = system_mixing
    /\ Len(pathways) = 3

\* C3: with TotalMixing between two spectral events, the result is every pair
\* (a, b) of a transition a selected before and a transition b selected after,
\* once each, all of weight 1: |A| x |B| pathways, the 9 of test_total_mixing
\* on the 1H + 14N system.
C3_TotalMixing ==
    /\ (pc = "done" /\ Len(Events(method)) = 3 /\ Events(method)[2] = MixingEvent(TotalMixing)) =>
          LET A == FirstSelected
              B == LastSelected
          IN /\ Returned = {<<A[a], B[b]>> : a \in 1..Len(A), b \in 1..Len(B)}
             /\ Len(pathways) = Len(A) * Len(B)
             /\ NoneTwice
             /\ AllWeightOne
    /\ (pc = "done" /\ method = total_mix /\ spin_system = system_mixing) =>
          /\ pathways = expected_total_mixing
          /\ Len(pathways) = 9

C3_Witness ==
    /\ pc = "done"
    /\ method = total_mix
    /\ spin_system = system_mixing
    /\ Len(pathways) = 9

\* Every quantum number of both states negated.
Negated(t) ==
    Transition([i \in 1..Len(t.initial) |-> -t.initial[i]],
               [i \in 1..Len(t.final) |-> -t.final[i]])

\* C4: the Hahn echo on two 13C sites gives exactly 4 pathways of two
\* transitions, each a P=+1 transition followed by its negation, all of weight
\* 1: the list of test_hahn.
C4_HahnEcho ==
    (pc = "done" /\ method = hahn /\ spin_system = system_02) =>
        /\ Len(pathways) = 4
        /\ \A k \in 1..4 :
              /\ Len(pathways[k].pathway) = 2
              /\ P_total(pathways[k].pathway[1], {1, 2}) = 1
              /\ P_total(pathways[k].pathway[2], {1, 2}) = -1
              /\ pathways[k].pathway[2] = Negated(pathways[k].pathway[1])
              /\ pathways[k].weight = One
        /\ \A j, k \in 1..4 : j # k => pathways[j] # pathways[k]
        /\ pathways = expected_hahn

C4_Witness ==
    /\ pc = "done"
    /\ method = hahn
    /\ spin_system = system_02
    /\ Len(pathways) = 4

\* The site of a two-site single-quantum transition that changes, and the
\* quantum number of the site that does not.
FlippedSite(t) == CHOOSE i \in 1..2 : t.initial[i] # t.final[i]
SpectatorValue(t) == t.initial[3 - FlippedSite(t)]

\* C5: COSY on two 1H sites gives all 16 ordered pairs of the 4 single-quantum
\* transitions; the weight is -0.25 for the pairs that flip different sites
\* with the same quantum number on the site that does not flip, and +0.25 for
\* the others: the list of test_cosy.
C5_Cosy ==
    (pc = "done" /\ method = cosy /\ spin_system = system_cosy) =>
        /\ Len(pathways) = 16
        /\ LET A == FirstSelected
           IN /\ Len(A) = 4
              /\ \A a, b \in 1..4 : Occurrences(<<A[a], A[b]>>) = 1
        /\ \A k \in 1..16 :
              LET a == pathways[k].pathway[1]
                  b == pathways[k].pathway[2]
              IN pathways[k].weight =
                     IF FlippedSite(a) # FlippedSite(b) /\ SpectatorValue(a) = SpectatorValue(b)
                     THEN MinusQuarter ELSE Quarter
        /\ Cardinality({k \in 1..16 : pathways[k].weight = MinusQuarter}) = 4
        /\ pathways = expected_cosy

C5_Witness ==
    /\ pc = "done"
    /\ method = cosy
    /\ spin_system = system_cosy
    /\ Len(pathways) = 16

\* C6: on a system of spin-1/2 sites only, the query P=[-1] on one channel
\* matches (number of sites of the channel isotope) x 2^(n-1) transitions, n
\* the number of sites.
C6_MatchedCount ==
    (/\ pc \in {"run", "done", "error"}
     /\ method \in {OneEvent(ch, -1) : ch \in {C13, H1}}
     /\ \A i \in 1..Len(spin_system) : Multiplicity(spin_system[i]) = 2) =>
        Len(FirstSelected) =
            Cardinality(SitesOf(spin_system, method.channels[1])) * Pow2(Len(spin_system) - 1)

\* The totals of every channel entry of the query are among the allowed values.
ChannelTotalsMatch(t, sites, channels, q) ==
    \A ch \in DOMAIN q :
        LET S == SitesOf(sites, channels[ChannelIndex(ch)])
        IN /\ ("P" \in DOMAIN q[ch] => InSeq(P_total(t, S), q[ch].P))
           /\ ("D" \in DOMAIN q[ch] => InSeq(D_total(t, S), q[ch].D))

OneEventMethods == {OneEvent(ch, p) : ch \in {C13, H1}, p \in {-2, -1, 1}}

\* The sites of the system whose isotope is the channel's, as a system of their own.
ChannelSubsystem(sites, isotope) ==
    LET Same(x) == x = isotope IN SelectSeq(sites, Same)

RECURSIVE MultiplicityProduct(_)
MultiplicityProduct(sites) ==
    IF sites = <<>> THEN 1
    ELSE Multiplicity(Head(sites)) * MultiplicityProduct(Tail(sites))

OtherSites(sites, isotope) ==
    LET Other(x) == x # isotope IN SelectSeq(sites, Other)

\* C7 as stated: the sites of an isotope no channel query names are not
\* constrained at all, so every transition of the universe whose channel totals
\* satisfy the query is returned, whatever its initial and final quantum
\* numbers on those sites.
C7_UnnamedSitesUnconstrained ==
    (pc = "done" /\ method \in OneEventMethods) =>
        LET U == Universe(spin_system)
            q == Events(method)[1].transition_queries[1]
        IN \A k \in 1..Len(U) :
              ChannelTotalsMatch(U[k], spin_system, method.channels, q) =>
                  <<U[k]>> \in Returned

\* C7 amended: a site of an isotope no channel query names may be in any of its
\* states but keeps it (final = initial on that site). The transitions returned
\* are those of the universe whose channel totals satisfy the query and whose
\* unnamed sites keep their state, every one of them a distinct match: as many
\* as the channel's sites alone give, times the number of states of the unnamed
\* sites; on 13C + 1H and 13C + 13C + 14N they are the sets of test_01 and test_04.
C7_UnnamedSitesKeepState ==
    /\ (pc = "done" /\ method \in OneEventMethods) =>
          LET U == Universe(spin_system)
              q == Events(method)[1].transition_queries[1]
              ch == method.channels[1]
              Kept(t) == \A i \in 1..Len(spin_system) :
                             spin_system[i] # ch => t.final[i] = t.initial[i]
          IN /\ Returned = {<<U[k]>> : k \in {j \in 1..Len(U) :
                                /\ ChannelTotalsMatch(U[j], spin_system, method.channels, q)
                                /\ Kept(U[j])}}
             /\ NoneTwice
             /\ Len(pathways) =
                    Len(ResolveSpectralEvent(Events(method)[1],
                                             ChannelSubsystem(spin_system, ch), method.channels))
                    * MultiplicityProduct(OtherSites(spin_system, ch))
    /\ (pc = "done" /\ method = method1 /\ spin_system = system_01) =>
          SameTransitionSet(pathways, expected_01)
    /\ (pc = "done" /\ method = method1 /\ spin_system = system_04) =>
          SameTransitionSet(pathways, expected_04)

C7_Witness ==
    /\ pc = "done"
    /\ method = method1
    /\ spin_system = system_04
    /\ Len(pathways) = 12
    /\ \E j, k \in 1..12 :
          /\ pathways[j].pathway[1].initial[3] # pathways[k].pathway[1].initial[3]
          /\ pathways[j].pathway[1].initial[1] = pathways[k].pathway[1].initial[1]
          /\ pathways[j].pathway[1].initial[2] = pathways[k].pathway[1].initial[2]
          /\ pathways[j].pathway[1].final[1] = pathways[k].pathway[1].final[1]
          /\ pathways[j].pathway[1].final[2] = pathways[k].pathway[1].final[2]

\* Some SpectralEvent of the running method selects no transition.
SomeEventSelectsNothing ==
    \E k \in 1..Len(Events(method)) :
        /\ IsSpectral(Events(method)[k])
        /\ ResolveSpectralEvent(Events(method)[k], spin_system, method.channels) = <<>>

Lookup(symbol, registry) == get_isotope_dict(symbol, registry)

C10_UnknownSymbolFails ==
    [][(/\ outcome'.op \in {"Isotope", "get_isotope"}
        /\ outcome'.symbol \notin DOMAIN ISOTOPE_DATA
        /\ outcome'.symbol \notin DOMAIN custom_isotope_data)
       => outcome'.status # "ok"]_vars

\* C11: custom_isotope_data is written only by a successful Isotope.add_new:
\* Isotope(symbol=...), Isotope.get_isotope of a string or of an Isotope and the
\* reading of a property leave every entry as it was and add none.
C11_OnlyAddNewWrites ==
    [][outcome'.op \in {"Isotope", "get_isotope", "get_isotope_object", "spin"}
       => custom_isotope_data' = custom_isotope_data]_vars

\* The threads that called add_new with the symbol and with arguments that
\* pass every check of the values.
Registering(symbol) ==
    {t \in 1..MaxThreads :
        /\ threads[t].pc # "idle"
        /\ threads[t].symbol = symbol
        /\ add_new_checks(symbol, threads[t].args, [s \in {} |-> 0]) = "ok"}

\* C12: registration is serialized. When several threads have called add_new
\* with the same new symbol and different data and all have returned, exactly
\* one call succeeded, every other raised the collision error, and the registry
\* holds the data of the call that succeeded.
C12_RegistrationSerialized ==
    \A symbol \in ThreadSymbols :
        LET callers == Registering(symbol)
            winners == {t \in callers : threads[t].status = "ok"}
        IN (/\ Cardinality(callers) >= 2
            /\ \A t \in callers : threads[t].pc = "done"
            /\ \A t, u \in callers : t # u => threads[t].args # threads[u].args)
           => /\ Cardinality(winners) = 1
              /\ \A t \in callers \ winners : threads[t].status = "ValueError"
              /\ \A t \in winners :
                     /\ symbol \in DOMAIN custom_isotope_data
                     /\ custom_isotope_data[symbol] =
                            add_new_store(symbol, threads[t].args, [s \in {} |-> 0])[symbol]

\* C13: Isotope.add_new rejects a symbol that is a built-in isotope symbol, and
\* for a symbol that is a registered custom symbol it returns an instance of
\* that isotope, built from the stored data, and stores nothing. (Calls that
\* do not fit the signature raise TypeError before anything is looked at.)
C13_KnownCustomReturned ==
    [][(outcome'.op = "add_new" /\ outcome'.status # "TypeError")
       => /\ outcome'.symbol \in DOMAIN ISOTOPE_DATA => outcome'.status # "ok"
          /\ outcome'.symbol \in DOMAIN custom_isotope_data =>
                 /\ outcome'.status = "ok"
                 /\ outcome'.isotope =
                        IsotopeObject(outcome'.symbol,
                                      custom_isotope_data[outcome'.symbol].d)
                 /\ custom_isotope_data' = custom_isotope_data]_vars

\* The SpectralEvents of a method, dimension after dimension.
RECURSIVE SpectralEventsFrom(_, _)
SpectralEventsFrom(m, d) ==
    IF d > Len(m.spectral_dimensions) THEN <<>>
    ELSE SelectSeq(m.spectral_dimensions[d].events, IsSpectral)
         \o SpectralEventsFrom(m, d + 1)

\* One doubled quantum number of the site's isotope per site.
ValidState(st, sites) ==
    /\ Len(st) = Len(sites)
    /\ \A i \in 1..Len(sites) :
          LET mult == ISOTOPE_DATA[sites[i]].spin_multiplicity
          IN /\ st[i] \in (1 - mult)..(mult - 1)
             /\ (st[i] + mult - 1) % 2 = 0

\* C14: every returned pathway has one transition per SpectralEvent of the
\* method, the j-th admitted by the j-th SpectralEvent in declaration order
\* over all dimensions; MixingEvents add none (the 3 events of the Hahn echo
\* give pathways of 2 transitions); initial and final have one valid quantum
\* number per site of the spin system.
C14_OneTransitionPerSpectralEvent ==
    /\ pc = "done" =>
          LET se == SpectralEventsFrom(method, 1)
          IN \A k \in 1..Len(pathways) :
                /\ Len(pathways[k].pathway) = Len(se)
                /\ \A j \in 1..Len(se) :
                      /\ ValidState(pathways[k].pathway[j].initial, spin_system)
                      /\ ValidState(pathways[k].pathway[j].final, spin_system)
                      /\ Admits(se[j], pathways[k].pathway[j], spin_system, method.channels)
    /\ (pc = "done" /\ method = hahn) =>
          /\ Len(hahn.spectral_dimensions[1].events) = 3
          /\ \A k \in 1..Len(pathways) : Len(pathways[k].pathway) = 2

C14_Witness ==
    /\ pc = "done"
    /\ method = hahn
    /\ spin_system = <<C13, N14>>
    /\ Len(pathways) = 3
    /\ \A k \in 1..3 :
          /\ Len(pathways[k].pathway) = 2
          /\ Len(pathways[k].pathway[1].initial) = 2

\* States compare site by site, the first site the most significant;
\* transitions by initial state, then final state; pathways transition by
\* transition, the first the most significant.
StateLess(a, b) ==
    \E i \in 1..Len(a) : a[i] < b[i] /\ \A j \in 1..(i - 1) : a[j] = b[j]

TransitionLess(t, u) ==
    \/ StateLess(t.initial, u.initial)
    \/ t.initial = u.initial /\ StateLess(t.final, u.final)

PathwayLess(p, q) ==
    \E j \in 1..Len(p) : TransitionLess(p[j], q[j]) /\ \A i \in 1..(j - 1) : p[i] = q[i]

\* C15: the returned list is in increasing order: pathways event by event, the
\* first spectral event the most significant, transitions by initial state
\* then final state, states site-major by increasing quantum number. The lists
\* of test_cosy and test_total_mixing, compared by ordered equality, are in
\* that order and are what is returned.
C15_FixedOrder ==
    /\ pc = "done" =>
          \A k \in 1..(Len(pathways) - 1) :
              PathwayLess(pathways[k].pathway, pathways[k + 1].pathway)
    /\ (pc = "done" /\ method = cosy /\ spin_system = system_cosy) =>
          \A k \in 1..16 : pathways[k] = expected_cosy[k]
    /\ (pc = "done" /\ method = total_mix /\ spin_system = system_mixing) =>
          \A k \in 1..9 : pathways[k] = expected_total_mixing[k]

C15_Witness ==
    /\ pc = "done"
    /\ method = cosy
    /\ spin_system = system_cosy
    /\ Len(pathways) = 16
    /\ PathwayLess(pathways[1].pathway, pathways[16].pathway)

\* The sites whose isotope has no channel entry in the query keep their state.
UnnamedSitesKept(t, sites, channels, q) ==
    \A i \in 1..Len(sites) :
        (\A ch \in DOMAIN q : channels[ChannelIndex(ch)] # sites[i])
            => t.final[i] = t.initial[i]

\* The queries of the only event of the running method.
OnlyEventQueries == method.spectral_dimensions[1].events[1].transition_queries

ZeroOnEveryChannel(channels) ==
    IF Len(channels) = 1 THEN [ch1 |-> [P |-> <<0>>]]
    ELSE [ch1 |-> [P |-> <<0>>], ch2 |-> [P |-> <<0>>]]

\* C18: a SpectralEvent without transition_queries gives what the event with
\* the one query P=[0] on every channel gives: the transitions whose total
\* coherence-order change is 0 on each channel, and only those.
C18_DefaultQueryIsZeroP ==
    (pc = "done" /\ OnlyEventQueries = <<>>) =>
        LET U == Universe(spin_system)
            explicit == ResolveSpectralEvent(
                            SpectralEvent(<<ZeroOnEveryChannel(method.channels)>>),
                            spin_system, method.channels)
        IN /\ pathways = [k \in 1..Len(explicit) |-> TransitionPathway(<<explicit[k]>>, One)]
           /\ \A k \in 1..Len(pathways) : \A c \in 1..Len(method.channels) :
                  P_total(pathways[k].pathway[1], SitesOf(spin_system, method.channels[c])) = 0
           /\ Returned = {<<U[k]>> : k \in {j \in 1..Len(U) :
                  /\ \A c \in 1..Len(method.channels) :
                         P_total(U[j], SitesOf(spin_system, method.channels[c])) = 0
                  /\ \A i \in 1..Len(spin_system) :
                         ~InSeq(spin_system[i], method.channels)
                             => U[j].final[i] = U[j].initial[i]}}

\* Two 1H sites: the four populations and the two zero-quantum transitions.
C18_Witness ==
    /\ pc = "done"
    /\ OnlyEventQueries = <<>>
    /\ method.channels = <<H1>>
    /\ spin_system = <<H1, H1>>
    /\ Len(pathways) = 6

\* The query of the MixingEvent between the two spectral events of the running
\* method, when it has that shape.
TwoEventsOneMixing ==
    /\ Len(Events(method)) = 3
    /\ IsSpectral(Events(method)[1])
    /\ IsMixing(Events(method)[2])
    /\ IsSpectral(Events(method)[3])

ZeroAngle == Rotation([ch1 |-> [angle |-> 0, phase |-> 0]])

\* C20: the rotation query of angle 0 connects a transition to itself with
\* weight 1 and to every other transition with weight 0, and a method with it
\* returns the list the same method returns with NoMixing in its place.
C20_ZeroAngleIsNoMixing ==
    (pc = "done" /\ TwoEventsOneMixing /\ Events(method)[2].query = ZeroAngle) =>
        LET A == FirstSelected
            B == LastSelected
            first == ExtendFrontier(<<TransitionPathway(<<>>, One)>>, A, NoPending,
                                    spin_system, method.channels)
            nomix == PruneZero(ExtendFrontier(first, B, NoMixing,
                                              spin_system, method.channels))
        IN /\ \A a \in 1..Len(A), b \in 1..Len(B) :
                  ConnectionWeight(A[a], B[b], spin_system, method.channels, ZeroAngle)
                      = IF A[a] = B[b] THEN One ELSE Zero
           /\ pathways = nomix
           /\ Returned = {<<A[ab[1]], B[ab[2]]>> :
                              ab \in {xy \in (1..Len(A)) \X (1..Len(B)) : A[xy[1]] = B[xy[2]]}}
           /\ AllWeightOne

C20_Witness ==
    /\ pc = "done"
    /\ method = TwoDimensions(H1, -1, ZeroAngle, -1)
    /\ spin_system = system_cosy
    /\ Len(pathways) = 4

\* C21: rvs(size) of CzjzekDistribution and of ExtCzjzekDistribution gives
\* variates of length size on every call, with the cache on or off, also
\* when an earlier call on the same object asked for another size.
C21_RvsHasLengthSize ==
    variates.op = "rvs" => variates.length = variates.size

\* C29: CzjzekDistribution.rvs draws with the sigma the object has at the
\* call, also after sigma was assigned or read from the lmfit parameters,
\* with the cache on or off.
C29_RvsUsesCurrentSigma ==
    (variates.op = "rvs" /\ distribution.model_name = "czjzek") =>
        variates.sigma = distribution.sigma[1]

\* The model parameters of a distribution: sigma or zeta, eta and eps, the
\* mean isotropic chemical shift and the abundance.
ModelParameters(self) ==
    <<self.sigma, self.symmetric_tensor, self.eps,
      self.mean_isotropic_chemical_shift, self.abundance>>

\* C30: update_lmfit_params(params, i) right after get_lmfit_params(params, i)
\* on the same object succeeds and changes no model parameter, for both
\* classes.
C30_GetThenUpdateKeeps ==
    [][(/\ variates.op = "get_lmfit_params"
        /\ variates'.op = "update_lmfit_params"
        /\ variates'.i = variates.i) =>
           /\ ~variates'.raised
           /\ ModelParameters(distribution') = ModelParameters(distribution)]_vars

\* The lengths of the list arguments of the last call, and of the lists
\* inside its shielding dict.
ListLengths ==
    LET a == site_list.arguments
    IN  { Len(a[k].items) : k \in { j \in 1..3 : a[j].list } }

DictListLengths ==
    LET a == site_list.arguments
    IN  IF a[4] = None THEN {}
        ELSE { Len(a[4][1][key].items) :
                  key \in { d \in DOMAIN a[4][1] : a[4][1][d].list } }

\* The value the i-th site has to get from an argument.
ValueFor(argument, i) ==
    IF argument.list THEN argument.items[i] ELSE argument.items[1]

\* C22: generate_site_list raises ValueError when its list arguments differ
\* in length (a list inside a dict argument counted against the length of
\* the others), and otherwise returns n sites, n the common length of the
\* list arguments (1 without lists), the i-th site with the i-th value of
\* every list and with every scalar.
C22_SitesFollowArguments ==
    site_list.called =>
        LET n == IF ListLengths = {} THEN 1
                 ELSE CHOOSE l \in ListLengths : TRUE
            a == site_list.arguments
        IN  IF Cardinality(ListLengths) > 1 \/ DictListLengths \ {n} # {}
            THEN site_list.raised
            ELSE /\ ~site_list.raised
                 /\ Len(site_list.sites) = n
                 /\ \A i \in 1..n :
                       /\ site_list.sites[i].isotope = ValueFor(a[1], i)
                       /\ site_list.sites[i].isotropic_chemical_shift
                              = ValueFor(a[2], i)
                       /\ site_list.sites[i].name = ValueFor(a[3], i)
                       /\ a[4] # None =>
                             site_list.sites[i].shielding_symmetric
                                 = Some([key \in DOMAIN a[4][1] |->
                                            ValueFor(a[4][1][key], i)])

\* C23: get_isotope(isotope.dict()) gives an Isotope equal to the one that
\* was serialized and leaves the registry as it was, for every Isotope that
\* exists, whichever way its symbol came to be known.
C23_RoundTripKeeps ==
    [][outcome'.op = "get_isotope_round_trip" =>
           /\ outcome'.status = "ok"
           /\ outcome'.isotope = outcome.isotope
           /\ custom_isotope_data' = custom_isotope_data]_vars

\* C26: Isotope(symbol='1 H'), a mass number, whitespace and the element
\* symbol of a built-in isotope, gives the Isotope of the normalized symbol
\* '1H' with the built-in data and enters nothing into the registry.
C26_SpacedSymbolNormalized ==
    [][CallIsotope(Spaced1H, Dict(NoFields, {}, {})) =>
           /\ FormattedString(Spaced1H) = H1
           /\ outcome'.status = "ok"
           /\ outcome'.isotope = IsotopeObject(H1, ISOTOPE_DATA[H1])
           /\ custom_isotope_data' = custom_isotope_data]_vars

\* A registry entry add_new would have accepted: spin_multiplicity an integer
\* above 1, natural_abundance within 0 and 100, atomic_number an integer.
ValidEntry(entry) ==
    /\ {"spin_multiplicity", "natural_abundance", "atomic_number"}
           \cap (entry.bad \cup entry.coerced) = {}
    /\ entry.d.spin_multiplicity > 1
    /\ 0 <= entry.d.natural_abundance
    /\ entry.d.natural_abundance <= Percent(100)

\* C27: whatever Isotope constructions, get_isotope calls and add_new calls
\* were made, every entry of the registry is a valid one and its symbol is
\* no symbol of the built-in table.
C27_RegistryEntriesValid ==
    \A symbol \in DOMAIN custom_isotope_data :
        /\ ValidEntry(custom_isotope_data[symbol])
        /\ symbol \notin DOMAIN ISOTOPE_DATA

\* C28: an Isotope construction that raises leaves the registry as it was.
C28_FailedConstructionWritesNothing ==
    [][(outcome'.op = "Isotope" /\ outcome'.status # "ok") =>
           custom_isotope_data' = custom_isotope_data]_vars

\* The running method has two dimensions, the first a SpectralEvent closed by
\* a MixingEvent, the second one SpectralEvent.
ClosingMixingEvent ==
    /\ Len(method.spectral_dimensions) = 2
    /\ Len(method.spectral_dimensions[1].events) = 2
    /\ IsSpectral(method.spectral_dimensions[1].events[1])
    /\ IsMixing(method.spectral_dimensions[1].events[2])
    /\ Len(method.spectral_dimensions[2].events) = 1
    /\ IsSpectral(method.spectral_dimensions[2].events[1])

\* C24: a MixingEvent that is the last event of a dimension gates the
\* connection between the SpectralEvent before it and the first SpectralEvent
\* of the next dimension: the pathways returned are the pairs of a transition
\* of the one and a transition of the other whose connection weight under
\* the query is not zero, each with that weight; with NoMixing these are the
\* pairs of equal transitions.
C24_ClosingMixingGatesNextDimension ==
    (pc = "done" /\ ClosingMixingEvent) =>
        LET A == ResolveSpectralEvent(method.spectral_dimensions[1].events[1],
                                      spin_system, method.channels)
            B == ResolveSpectralEvent(method.spectral_dimensions[2].events[1],
                                      spin_system, method.channels)
            mq == method.spectral_dimensions[1].events[2].query
            Connected ==
                { ab \in (1..Len(A)) \X (1..Len(B)) :
                     ConnectionWeight(A[ab[1]], B[ab[2]], spin_system,
                                      method.channels, mq).nz }
        IN  /\ Len(pathways) = Cardinality(Connected)
            /\ \A ab \in Connected : <<A[ab[1]], B[ab[2]]>> \in Returned
            /\ \A k \in 1..Len(pathways) :
                  /\ Len(pathways[k].pathway) = 2
                  /\ pathways[k].weight =
                         ConnectionWeight(pathways[k].pathway[1],
                                          pathways[k].pathway[2], spin_system,
                                          method.channels, mq)
                  /\ mq = NoMixing =>
                         pathways[k].pathway[1] = pathways[k].pathway[2]

\* The quarter pulse closing the first dimension connects different
\* transitions of two coupled 1H sites with a weight that is not 1.
C24_Witness ==
    /\ pc = "done"
    /\ ClosingMixingEvent
    /\ method.spectral_dimensions[1].events[2].query.kind = "Rotation"
    /\ spin_system = system_cosy
    /\ \E k \in 1..Len(pathways) :
          /\ pathways[k].pathway[1] # pathways[k].pathway[2]
          /\ pathways[k].weight # One

\* The running method is two SpectralEvents with no MixingEvent between
\* them, in one dimension or in two adjacent ones.
TwoConsecutiveSpectralEvents ==
    /\ Len(Events(method)) = 2
    /\ IsSpectral(Events(method)[1])
    /\ IsSpectral(Events(method)[2])

\* C25: two consecutive SpectralEvents with no MixingEvent between them, in
\* one dimension or in adjacent dimensions, give the pathways and weights of
\* the same method with TotalMixing between the two: every transition of the
\* first followed by every transition of the second, each with weight 1.
C25_NoMixingEventIsTotalMixing ==
    (pc = "done" /\ TwoConsecutiveSpectralEvents) =>
        LET A == FirstSelected
            B == LastSelected
            first == ExtendFrontier(<<TransitionPathway(<<>>, One)>>, A, NoPending,
                                    spin_system, method.channels)
            total == PruneZero(ExtendFrontier(first, B, TotalMixing,
                                              spin_system, method.channels))
        IN  /\ pathways = total
            /\ Len(pathways) = Len(A) * Len(B)
            /\ \A a \in 1..Len(A), b \in 1..Len(B) : <<A[a], B[b]>> \in Returned
            /\ AllWeightOne

\* Two coupled 1H sites, one SpectralEvent in each of two dimensions: the
\* four transitions of the first followed by the four of the second.
C25_Witness ==
    /\ pc = "done"
    /\ method = TwoSpectralTwoDimensions(H1, -1, -1)
    /\ spin_system = system_cosy
    /\ Len(pathways) = 16
    /\ \E k \in 1..Len(pathways) : pathways[k].pathway[1] # pathways[k].pathway[2]

====
